---- MODULE Spec2Model ----
(***************************************************************************)
(* Model of the user authentication service                                *)
(* (0x03-user_authentication_service/auth.py, app.py).                     *)
(*                                                                         *)
(* Python values are encoded as integers: None is -1, the empty string is  *)
(* 0, uuid strings are 1, 2, ... in the order uuid4() produced them,       *)
(* e-mail addresses and passwords are 1..NumEmails and 1..NumPasswords,    *)
(* user ids are the positions 1, 2, ... of the rows of the users table.    *)
(* An operation of Auth is an operator from the table and the arguments to *)
(* the set of outcomes it can have (see Outcome): the table after the      *)
(* call, the value returned, the exception that left the method ("none"    *)
(* when it returned) and the store calls and uuid4() calls it made.        *)
(***************************************************************************)
EXTENDS Integers, Sequences, FiniteSets, TLC

\* ---- bounds of the model
NumEmails == 2
NumPasswords == 2
NumSalts == 1
MaxTokens == 3
MaxReqs == 2

\* ---- Python values
None == 0 - 1
EmptyStr == 0
Falsy(v) == v = None \/ v = EmptyStr

Emails == 1..NumEmails
Passwords == 1..NumPasswords
Salts == 1..NumSalts
Uuids == 1..MaxTokens

\* what request.form.get / request.cookies.get can hand to Auth
EmailArgs == Emails \cup {None}
PasswordArgs == Passwords \cup {None}
TokenArgs == Uuids \cup {None, EmptyStr}
UserIdArgs == (0..NumEmails) \cup {None}

NoHash == [salt |-> 0, digest |-> <<0, 0>>]

\* users: the users table; issued: how many values uuid4() has returned;
\* last: the latest call of Auth, its first argument and its outcome.
\* History of the calls, kept for the properties:
\*   consumed     the reset_token arguments of the update_password calls
\*                that succeeded
\*   destroyed    the session ids destroy_session has cleared
\*   overwritten  the session ids create_session has replaced
\*   superseded   the reset tokens get_reset_password_token has replaced
\* reqs: the requests in flight when calls interleave, one per slot (see
\* Request); every slot is idle when calls run one at a time.
VARIABLES users, issued, last, consumed, destroyed, overwritten, superseded,
          reqs

vars == <<users, issued, last, consumed, destroyed, overwritten, superseded,
          reqs>>

\* ---- Credential hasher (bcrypt), an ideal salted hash: the digest is
\* ---- determined by the salt and the password and by nothing else
hashpw(password, salt) == [salt |-> salt, digest |-> <<salt, password>>]

checkpw(password, hashed) == hashpw(password, hashed.salt).digest = hashed.digest

\* password.encode('utf-8') raises AttributeError on None
_hash_password(password, salt) ==
  IF password = None THEN [exc |-> "AttributeError", hashed |-> NoHash]
  ELSE [exc |-> "none", hashed |-> hashpw(password, salt)]

\* a generator that hands out its latest value again
uuid4_Repeats(n) == IF n = 0 THEN 1 ELSE n

\* uuid4() after n earlier calls: a value none of them returned
uuid4(n) == n + 1

\* a session id generator that returns one fixed string
_generate_uuid_Fixed(n) == 1

_generate_uuid(n) == uuid4(n)

\* ---- User store (db.py: rows keyed by id, looked up by field equality)
User(email, hashed) ==
  [email |-> email, hashed_password |-> hashed,
   session_id |-> None, reset_token |-> None]

Matches(db, field, value) == {i \in DOMAIN db : db[i][field] = value}

\* outcomes of a lookup: the internal error when the store fails, NotFound
\* on zero matches, the match when there is one; on several matches the
\* store may return any of them or fail
find_user_by(db, field, value, fails) ==
  IF fails THEN {[exc |-> "StoreError", id |-> 0]}
  ELSE LET m == Matches(db, field, value) IN
       IF m = {} THEN {[exc |-> "NoResultFound", id |-> 0]}
       ELSE {[exc |-> "none", id |-> i] : i \in m}
            \cup (IF Cardinality(m) > 1
                  THEN {[exc |-> "StoreError", id |-> 0]} ELSE {})

\* an insert that accepts a second row with the same e-mail
add_user_NoConstraint(db, email, hashed) ==
  [exc |-> "none", db |-> Append(db, User(email, hashed))]

\* insert of a new row; the store keeps e-mail unique and rejects a second
\* row with an e-mail it already holds
add_user(db, email, hashed) ==
  IF Matches(db, "email", email) # {}
  THEN [exc |-> "IntegrityError", db |-> db]
  ELSE [exc |-> "none", db |-> Append(db, User(email, hashed))]

\* partial update of the row with this id
update_user(db, user_id, field, value, fails) ==
  IF fails THEN [exc |-> "StoreError", db |-> db]
  ELSE IF user_id \notin DOMAIN db THEN [exc |-> "NoResultFound", db |-> db]
  ELSE [exc |-> "none", db |-> [db EXCEPT ![user_id][field] = value]]

\* assignment to an attribute of the row object a lookup returned
SetAttr(db, id, field, value) == [db EXCEPT ![id][field] = value]

\* uuids: how many values the call drew from uuid4(); user: the id of the
\* row the lookup of the call returned, 0 when it returned none
Outcome(db, ret, exc, calls, uuids, user) ==
  [db |-> db, ret |-> ret, exc |-> exc, calls |-> calls, uuids |-> uuids,
   user |-> user]

\* ---- Auth (auth.py).  fault = k makes the k-th store call of the method
\* ---- fail with an internal store error, fault = 0 is a healthy store.
\* register_user without the lookup by e-mail
register_user_NoLookup(db, email, password, salt, fault) ==
  LET h == _hash_password(password, salt) IN
  IF h.exc # "none" THEN {Outcome(db, None, h.exc, 0, 0, 0)}
  ELSE IF fault # 0 THEN {Outcome(db, None, "StoreError", 1, 0, 0)}
  ELSE LET a == add_user(db, email, h.hashed) IN
       IF a.exc # "none" THEN {Outcome(db, None, a.exc, 1, 0, 0)}
       ELSE {Outcome(a.db, Len(db) + 1, "none", 1, 0, Len(db) + 1)}

\* register_user hashing the wrong argument
register_user_HashesEmail(db, email, password, salt, fault) ==
  { IF f.exc = "none" THEN Outcome(db, None, "ValueError", 1, 0, f.id)
    ELSE IF f.exc = "NoResultFound"
    THEN LET h == _hash_password(email, salt) IN
         IF fault = 2 THEN Outcome(db, None, "StoreError", 2, 0, f.id)
         ELSE LET a == add_user(db, email, h.hashed) IN
              IF a.exc # "none" THEN Outcome(db, None, a.exc, 2, 0, f.id)
              ELSE Outcome(a.db, Len(db) + 1, "none", 2, 0, Len(db) + 1)
    ELSE Outcome(db, None, f.exc, 1, 0, f.id)
    : f \in find_user_by(db, "email", email, fault = 1) }

register_user(db, email, password, salt, fault) ==
  { IF f.exc = "none" THEN Outcome(db, None, "ValueError", 1, 0, f.id)
    ELSE IF f.exc = "NoResultFound"
    THEN LET h == _hash_password(password, salt) IN
         IF h.exc # "none" THEN Outcome(db, None, h.exc, 1, 0, f.id)
         ELSE IF fault = 2 THEN Outcome(db, None, "StoreError", 2, 0, f.id)
         ELSE LET a == add_user(db, email, h.hashed) IN
              IF a.exc # "none" THEN Outcome(db, None, a.exc, 2, 0, f.id)
              ELSE Outcome(a.db, Len(db) + 1, "none", 2, 0, Len(db) + 1)
    ELSE Outcome(db, None, f.exc, 1, 0, f.id)
    : f \in find_user_by(db, "email", email, fault = 1) }

\* valid_login catching NoResultFound only
valid_login_NarrowExcept(db, email, password, fault) ==
  { IF f.exc = "NoResultFound" THEN Outcome(db, FALSE, "none", 1, 0, f.id)
    ELSE IF f.exc # "none" THEN Outcome(db, FALSE, f.exc, 1, 0, f.id)
    ELSE IF password = None THEN Outcome(db, FALSE, "AttributeError", 1, 0, f.id)
    ELSE Outcome(db, checkpw(password, db[f.id].hashed_password), "none", 1, 0,
                 f.id)
    : f \in find_user_by(db, "email", email, fault = 1) }

valid_login(db, email, password, fault) ==
  { IF f.exc # "none" THEN Outcome(db, FALSE, "none", 1, 0, f.id)
    ELSE IF password = None THEN Outcome(db, FALSE, "none", 1, 0, f.id)
    ELSE Outcome(db, checkpw(password, db[f.id].hashed_password), "none", 1, 0,
                 f.id)
    : f \in find_user_by(db, "email", email, fault = 1) }

\* create_session returning an id it never stored
create_session_NoStore(db, email, n, fault) ==
  { IF f.exc # "none" THEN Outcome(db, None, "none", 1, 0, f.id)
    ELSE Outcome(db, _generate_uuid(n), "none", 1, 1, f.id)
    : f \in find_user_by(db, "email", email, fault = 1) }

create_session(db, email, n, fault) ==
  { IF f.exc # "none" THEN Outcome(db, None, "none", 1, 0, f.id)
    ELSE LET session_id == _generate_uuid(n)
             u == update_user(db, f.id, "session_id", session_id, fault = 2)
         IN IF u.exc # "none" THEN Outcome(db, None, "none", 2, 1, f.id)
            ELSE Outcome(u.db, session_id, "none", 2, 1, f.id)
    : f \in find_user_by(db, "email", email, fault = 1) }

\* get_user_from_session_id without the guard on a falsy session_id
get_user_from_session_id_NoGuard(db, session_id, fault) ==
  { IF f.exc # "none" THEN Outcome(db, None, "none", 1, 0, f.id)
    ELSE Outcome(db, f.id, "none", 1, 0, f.id)
    : f \in find_user_by(db, "session_id", session_id, fault = 1) }

get_user_from_session_id(db, session_id, fault) ==
  IF Falsy(session_id) THEN {Outcome(db, None, "none", 0, 0, 0)}
  ELSE { IF f.exc # "none" THEN Outcome(db, None, "none", 1, 0, f.id)
         ELSE Outcome(db, f.id, "none", 1, 0, f.id)
         : f \in find_user_by(db, "session_id", session_id, fault = 1) }

\* destroy_session clearing the wrong field
destroy_session_WrongField(db, user_id, fault) ==
  IF Falsy(user_id) THEN {Outcome(db, None, "none", 0, 0, 0)}
  ELSE LET u == update_user(db, user_id, "reset_token", None, fault = 1)
       IN {Outcome(u.db, None, u.exc, 1, 0,
                   IF u.exc = "none" THEN user_id ELSE 0)}

\* destroy_session clearing the reset token along with the session
destroy_session_ClearsTokens(db, user_id, fault) ==
  IF Falsy(user_id) THEN {Outcome(db, None, "none", 0, 0, 0)}
  ELSE LET u == update_user(db, user_id, "session_id", None, fault = 1)
       IN {Outcome(IF u.exc = "none"
                   THEN SetAttr(u.db, user_id, "reset_token", None) ELSE u.db,
                   None, u.exc, 1, 0, IF u.exc = "none" THEN user_id ELSE 0)}

destroy_session(db, user_id, fault) ==
  IF Falsy(user_id) THEN {Outcome(db, None, "none", 0, 0, 0)}
  ELSE LET u == update_user(db, user_id, "session_id", None, fault = 1)
       IN {Outcome(u.db, None, u.exc, 1, 0,
                   IF u.exc = "none" THEN user_id ELSE 0)}

\* get_reset_password_token handing out the token that is already pending
get_reset_password_token_KeepsPending(db, email, n, fault) ==
  { IF f.exc = "NoResultFound" THEN Outcome(db, None, "ValueError", 1, 0, f.id)
    ELSE IF f.exc # "none" THEN Outcome(db, None, f.exc, 1, 0, f.id)
    ELSE IF db[f.id].reset_token # None
    THEN Outcome(db, db[f.id].reset_token, "none", 1, 0, f.id)
    ELSE Outcome(SetAttr(db, f.id, "reset_token", uuid4(n)), uuid4(n), "none",
                 1, 1, f.id)
    : f \in find_user_by(db, "email", email, fault = 1) }

\* get_reset_password_token with one fixed token for every user
get_reset_password_token_FixedToken(db, email, n, fault) ==
  { IF f.exc = "NoResultFound" THEN Outcome(db, None, "ValueError", 1, 0, f.id)
    ELSE IF f.exc # "none" THEN Outcome(db, None, f.exc, 1, 0, f.id)
    ELSE Outcome(SetAttr(db, f.id, "reset_token", 1), 1, "none", 1, 1, f.id)
    : f \in find_user_by(db, "email", email, fault = 1) }

\* get_reset_password_token returning a token it never put on the row
get_reset_password_token_NotStored(db, email, n, fault) ==
  { IF f.exc = "NoResultFound" THEN Outcome(db, None, "ValueError", 1, 0, f.id)
    ELSE IF f.exc # "none" THEN Outcome(db, None, f.exc, 1, 0, f.id)
    ELSE Outcome(db, uuid4(n), "none", 1, 1, f.id)
    : f \in find_user_by(db, "email", email, fault = 1) }

get_reset_password_token(db, email, n, fault) ==
  { IF f.exc = "NoResultFound" THEN Outcome(db, None, "ValueError", 1, 0, f.id)
    ELSE IF f.exc # "none" THEN Outcome(db, None, f.exc, 1, 0, f.id)
    ELSE LET reset_token == uuid4(n)
         IN Outcome(SetAttr(db, f.id, "reset_token", reset_token),
                    reset_token, "none", 1, 1, f.id)
    : f \in find_user_by(db, "email", email, fault = 1) }

\* update_password that also ends the user's session
update_password_ClearsSession(db, reset_token, password, salt, fault) ==
  { IF f.exc = "NoResultFound" THEN Outcome(db, None, "ValueError", 1, 0, f.id)
    ELSE IF f.exc # "none" THEN Outcome(db, None, f.exc, 1, 0, f.id)
    ELSE LET h == _hash_password(password, salt) IN
         IF h.exc # "none" THEN Outcome(db, None, h.exc, 1, 0, f.id)
         ELSE Outcome([db EXCEPT ![f.id].hashed_password = h.hashed,
                                 ![f.id].reset_token = None,
                                 ![f.id].session_id = None],
                      None, "none", 1, 0, f.id)
    : f \in find_user_by(db, "reset_token", reset_token, fault = 1) }

\* update_password that clears the token and leaves the old hash in place
update_password_KeepsHash(db, reset_token, password, salt, fault) ==
  { IF f.exc = "NoResultFound" THEN Outcome(db, None, "ValueError", 1, 0, f.id)
    ELSE IF f.exc # "none" THEN Outcome(db, None, f.exc, 1, 0, f.id)
    ELSE Outcome(SetAttr(db, f.id, "reset_token", None), None, "none", 1, 0,
                 f.id)
    : f \in find_user_by(db, "reset_token", reset_token, fault = 1) }

update_password(db, reset_token, password, salt, fault) ==
  { IF f.exc = "NoResultFound" THEN Outcome(db, None, "ValueError", 1, 0, f.id)
    ELSE IF f.exc # "none" THEN Outcome(db, None, f.exc, 1, 0, f.id)
    ELSE LET h == _hash_password(password, salt) IN
         IF h.exc # "none" THEN Outcome(db, None, h.exc, 1, 0, f.id)
         ELSE Outcome(SetAttr(SetAttr(db, f.id, "hashed_password", h.hashed),
                              f.id, "reset_token", None),
                      None, "none", 1, 0, f.id)
    : f \in find_user_by(db, "reset_token", reset_token, fault = 1) }

\* ---- The service: AUTH = Auth() with an empty table, then any sequence of
\* ---- calls, with the arguments the HTTP layer can pass
Call(op, arg, r) == [op |-> op, arg |-> arg, ret |-> r.ret, exc |-> r.exc]

\* a request in flight: the Auth call or handler it runs (op), where it
\* stands (pc: the store call it makes next, "done" when it has ended), its
\* argument (arg: the e-mail, or the session_id cookie of a logout), the
\* row its lookup returned (user), what it returned or raised (ret, exc)
\* and, for a logout, the session id its destroy_session cleared
Request(op, pc, arg, user, ret, exc, cleared) ==
  [op |-> op, pc |-> pc, arg |-> arg, user |-> user, ret |-> ret,
   exc |-> exc, cleared |-> cleared]

Idle == Request("idle", "done", None, 0, None, "none", None)

Slots == 1..MaxReqs

Init ==
  /\ users = <<>>
  /\ issued = 0
  /\ last = [op |-> "init", arg |-> None, ret |-> None, exc |-> "none"]
  /\ consumed = {}
  /\ destroyed = {}
  /\ overwritten = {}
  /\ superseded = {}
  /\ reqs = [q \in Slots |-> Idle]

RegisterUser ==
  \E email \in Emails, password \in PasswordArgs, salt \in Salts,
     fault \in 0..2 :
    \E r \in register_user(users, email, password, salt, fault) :
      /\ users' = r.db
      /\ last' = Call("register_user", email, r)
      /\ UNCHANGED <<issued, consumed, destroyed, overwritten, superseded,
                     reqs>>

ValidLogin ==
  \E email \in EmailArgs, password \in PasswordArgs, fault \in 0..1 :
    \E r \in valid_login(users, email, password, fault) :
      /\ users' = r.db
      /\ last' = Call("valid_login", email, r)
      /\ UNCHANGED <<issued, consumed, destroyed, overwritten, superseded,
                     reqs>>

CreateSession ==
  /\ issued < MaxTokens
  /\ \E email \in EmailArgs, fault \in 0..2 :
       \E r \in create_session(users, email, issued, fault) :
         /\ users' = r.db
         /\ issued' = issued + r.uuids
         /\ last' = Call("create_session", email, r)
         /\ overwritten' =
              IF r.ret # None /\ users[r.user].session_id # None
              THEN overwritten \cup {users[r.user].session_id}
              ELSE overwritten
         /\ UNCHANGED <<consumed, destroyed, superseded,
                        reqs>>

GetUserFromSessionId ==
  \E session_id \in TokenArgs, fault \in 0..1 :
    \E r \in get_user_from_session_id(users, session_id, fault) :
      /\ users' = r.db
      /\ last' = Call("get_user_from_session_id", session_id, r)
      /\ UNCHANGED <<issued, consumed, destroyed, overwritten, superseded,
                     reqs>>

DestroySession ==
  \E user_id \in UserIdArgs, fault \in 0..1 :
    \E r \in destroy_session(users, user_id, fault) :
      /\ users' = r.db
      /\ last' = Call("destroy_session", user_id, r)
      /\ destroyed' =
           IF r.user # 0 /\ users[r.user].session_id # None
           THEN destroyed \cup {users[r.user].session_id}
           ELSE destroyed
      /\ UNCHANGED <<issued, consumed, overwritten, superseded,
                     reqs>>

GetResetPasswordToken ==
  /\ issued < MaxTokens
  /\ \E email \in EmailArgs, fault \in 0..1 :
       \E r \in get_reset_password_token(users, email, issued, fault) :
         /\ users' = r.db
         /\ issued' = issued + r.uuids
         /\ last' = Call("get_reset_password_token", email, r)
         /\ superseded' =
              IF r.exc = "none" /\ users[r.user].reset_token # None
              THEN superseded \cup {users[r.user].reset_token}
              ELSE superseded
         /\ UNCHANGED <<consumed, destroyed, overwritten,
                        reqs>>

UpdatePassword ==
  \E reset_token \in TokenArgs, password \in PasswordArgs, salt \in Salts,
     fault \in 0..1 :
    \E r \in update_password(users, reset_token, password, salt, fault) :
      /\ users' = r.db
      /\ last' = Call("update_password", reset_token, r)
      /\ consumed' = IF r.exc = "none" THEN consumed \cup {reset_token}
                     ELSE consumed
      /\ UNCHANGED <<issued, destroyed, overwritten, superseded,
                     reqs>>

Next ==
  \/ RegisterUser
  \/ ValidLogin
  \/ CreateSession
  \/ GetUserFromSessionId
  \/ DestroySession
  \/ GetResetPasswordToken
  \/ UpdatePassword

Spec == Init /\ [][Next]_vars

\* ---- The same service with calls of different requests interleaved
\* ---- between their store calls (the Flask server runs each request in a
\* ---- thread of its own; Auth takes no lock)
Done(q, ret, exc, cleared) ==
  reqs' = [reqs EXCEPT ![q] = Request(@.op, "done", @.arg, @.user, ret, exc,
                                      cleared)]

Goto(q, pc, user) ==
  reqs' = [reqs EXCEPT ![q] = Request(@.op, pc, @.arg, user, @.ret, @.exc,
                                      @.cleared)]

History == <<last, consumed, destroyed, overwritten, superseded>>

\* a client sends POST /users, POST /sessions (its create_session part) or
\* DELETE /sessions on a free slot
StartRequest(q) ==
  /\ reqs[q].pc = "done"
  /\ \/ \E email \in Emails :
          reqs' = [reqs EXCEPT ![q] = Request("register_user", "find", email,
                                              0, None, "none", None)]
     \/ \E email \in Emails :
          reqs' = [reqs EXCEPT ![q] = Request("create_session", "find", email,
                                              0, None, "none", None)]
     \/ \E session_id \in TokenArgs :
          reqs' = [reqs EXCEPT ![q] = Request("logout", "find", session_id,
                                              0, None, "none", None)]
  /\ UNCHANGED <<users, issued, History>>

\* register_user, line 41: find_user_by(email=email)
RegisterFind(q) ==
  /\ reqs[q].op = "register_user" /\ reqs[q].pc = "find"
  /\ \E f \in find_user_by(users, "email", reqs[q].arg, FALSE) :
       IF f.exc = "NoResultFound" THEN Goto(q, "add", 0)
       ELSE Done(q, None, "ValueError", None)
  /\ UNCHANGED <<users, issued, History>>

\* register_user, lines 45-47: _hash_password and add_user
RegisterAdd(q) ==
  /\ reqs[q].op = "register_user" /\ reqs[q].pc = "add"
  /\ \E password \in Passwords, salt \in Salts :
       LET h == _hash_password(password, salt)
           a == add_user(users, reqs[q].arg, h.hashed)
       IN /\ users' = a.db
          /\ IF a.exc = "none" THEN Done(q, Len(a.db), "none", None)
             ELSE Done(q, None, a.exc, None)
  /\ UNCHANGED <<issued, History>>

\* create_session, line 69: find_user_by(email=email)
CreateSessionFind(q) ==
  /\ reqs[q].op = "create_session" /\ reqs[q].pc = "find"
  /\ \E f \in find_user_by(users, "email", reqs[q].arg, FALSE) :
       IF f.exc = "none" THEN Goto(q, "update", f.id)
       ELSE Done(q, None, "none", None)
  /\ UNCHANGED <<users, issued, History>>

\* create_session, lines 70-72: _generate_uuid and update_user
CreateSessionUpdate(q) ==
  /\ reqs[q].op = "create_session" /\ reqs[q].pc = "update"
  /\ issued < MaxTokens
  /\ LET session_id == _generate_uuid(issued)
         u == update_user(users, reqs[q].user, "session_id", session_id, FALSE)
     IN /\ users' = u.db
        /\ issued' = issued + 1
        /\ Done(q, IF u.exc = "none" THEN session_id ELSE None, "none", None)
  /\ UNCHANGED History

\* logout, lines 57-62: the cookie is resolved to a user, 403 without one
LogoutFind(q) ==
  /\ reqs[q].op = "logout" /\ reqs[q].pc = "find"
  /\ \E r \in get_user_from_session_id(users, reqs[q].arg, 0) :
       IF Falsy(reqs[q].arg) \/ r.ret = None THEN Done(q, None, "403", None)
       ELSE Goto(q, "destroy", r.ret)
  /\ UNCHANGED <<users, issued, History>>

\* logout, line 63: destroy_session(user.id)
LogoutDestroy(q) ==
  /\ reqs[q].op = "logout" /\ reqs[q].pc = "destroy"
  /\ \E r \in destroy_session(users, reqs[q].user, 0) :
       /\ users' = r.db
       /\ Done(q, None, r.exc, users[reqs[q].user].session_id)
  /\ UNCHANGED <<issued, History>>

NextConc ==
  \E q \in Slots :
    \/ StartRequest(q)
    \/ RegisterFind(q)
    \/ RegisterAdd(q)
    \/ CreateSessionFind(q)
    \/ CreateSessionUpdate(q)
    \/ LogoutFind(q)
    \/ LogoutDestroy(q)

SpecConc == Init /\ [][NextConc]_vars

\* ---- Shorthands of the properties
Registered(db, email) == \E i \in DOMAIN db : db[i].email = email

\* the value every outcome of a call returns, when they all return one value
Returns(outcomes, v) == \A r \in outcomes : r.exc = "none" /\ r.ret = v

\* the passwords that log in on this e-mail with a healthy store
LogsIn(db, email) ==
  {p \in Passwords : Returns(valid_login(db, email, p, 0), TRUE)}

\* the users whose pending reset token is this value
PendingOn(db, reset_token) ==
  {i \in DOMAIN db : db[i].reset_token # None /\ db[i].reset_token = reset_token}

\* C1: a user's hashed_password changes only in an update_password call
\* whose reset_token argument is the token pending on that user; an
\* update_password call with any other argument, None included, fails and
\* changes no hashed_password and no reset_token.
C1_Step ==
  /\ users' # users => \A i \in DOMAIN users :
       users'[i].hashed_password # users[i].hashed_password
         => /\ last'.op = "update_password"
            /\ i \in PendingOn(users, last'.arg)
  /\ (last'.op = "update_password" /\ PendingOn(users, last'.arg) = {})
       => last'.exc # "none" /\ users' = users

C1_PasswordChangesOnlyWithPendingToken == [][C1_Step]_vars

\* C2: once update_password(token, pw) has succeeded, every later
\* update_password(token, any password) raises ValueError and changes no
\* user record.
C2_ResetTokenSingleUse ==
  \A t \in consumed : \A password \in PasswordArgs, salt \in Salts :
    \A r \in update_password(users, t, password, salt, 0) :
      r.exc = "ValueError" /\ r.db = users

\* C3: get_reset_password_token(email) on a registered user returns a token
\* t with which update_password(t, newPw) succeeds, at once or in any later
\* state where t is still pending; after it newPw logs in and no other
\* password does, and that stays so until an update_password succeeds on
\* that user again.
C3_Flow ==
  \A i \in DOMAIN users : \A newPw \in Passwords, salt \in Salts :
    /\ \A g \in get_reset_password_token(users, users[i].email, issued, 0) :
         /\ g.exc = "none" /\ g.ret # None
         /\ \A r \in update_password(g.db, g.ret, newPw, salt, 0) :
              /\ r.exc = "none" /\ r.user = i
              /\ LogsIn(r.db, users[i].email) = {newPw}
    /\ users[i].reset_token # None
         => \A r \in update_password(users, users[i].reset_token, newPw, salt, 0) :
              /\ r.exc = "none" /\ r.user = i
              /\ LogsIn(r.db, users[i].email) = {newPw}

C3_Step ==
  users' # users => \A i \in DOMAIN users :
    LogsIn(users', users[i].email) # LogsIn(users, users[i].email)
      => /\ last'.op = "update_password" /\ last'.exc = "none"
         /\ users[i].reset_token = last'.arg

C3_ResetFlowSetsPassword == []C3_Flow /\ [][C3_Step]_vars

C3_Witness ==
  /\ Len(users) = 1 /\ consumed \ {None} # {}
  /\ last.op = "valid_login" /\ last.arg = users[1].email /\ last.ret = TRUE

\* C4: register_user(email, password) on an e-mail not yet registered
\* succeeds and password then logs in on email in every later state reached
\* without a successful update_password on that user.
C4_Register ==
  \A email \in Emails, password \in Passwords, salt \in Salts :
    ~Registered(users, email)
      => \A r \in register_user(users, email, password, salt, 0) :
           r.exc = "none" /\ password \in LogsIn(r.db, email)

C4_Step ==
  users' # users => \A i \in DOMAIN users : \A p \in LogsIn(users, users[i].email) :
    p \notin LogsIn(users', users[i].email)
      => /\ last'.op = "update_password" /\ last'.exc = "none"
         /\ users[i].reset_token = last'.arg

C4_RegisteredPasswordLogsIn == []C4_Register /\ [][C4_Step]_vars

C4_Witness ==
  /\ Len(users) = 2 /\ consumed = {} /\ issued > 1
  /\ last.op = "valid_login" /\ last.ret = TRUE

\* C5: valid_login never raises and never changes the table; it returns
\* False when no user has the e-mail, when the password does not match the
\* user's hashed_password and when the lookup fails, and True only when a
\* user with the e-mail exists and the password matches.
C5_ValidLoginFailClosed ==
  \A email \in EmailArgs, password \in PasswordArgs, fault \in 0..1 :
    \A r \in valid_login(users, email, password, fault) :
      /\ r.exc = "none" /\ r.ret \in BOOLEAN /\ r.db = users
      /\ r.ret <=> /\ fault = 0 /\ password # None
                   /\ \E i \in DOMAIN users :
                        /\ users[i].email = email
                        /\ users[i].hashed_password.digest
                             = <<users[i].hashed_password.salt, password>>

C5_Witness ==
  /\ last.op = "valid_login" /\ last.ret = FALSE
  /\ Registered(users, last.arg)

\* C6: register_user on an e-mail that belongs to a user raises ValueError
\* and leaves the table as it was: no row added, no row changed.
C6_DuplicateRegistrationRejected ==
  \A i \in DOMAIN users : \A password \in PasswordArgs, salt \in Salts :
    \A fault \in 0..2 :
      \A r \in register_user(users, users[i].email, password, salt, fault) :
        /\ r.db = users
        /\ fault # 1 => r.exc = "ValueError"

C6_Witness ==
  /\ last.op = "register_user" /\ last.exc = "ValueError"
  /\ Registered(users, last.arg)

\* C7: create_session on a registered e-mail returns a non-null id, stores
\* it as that user's session_id, and get_user_from_session_id of a stored
\* session_id returns its user for as long as it is stored: the field
\* changes only in a create_session or destroy_session on that user.
\* create_session on an e-mail of no user returns None and changes nothing.
C7_Calls ==
  \A email \in EmailArgs :
    \A r \in create_session(users, email, issued, 0) :
      /\ r.exc = "none"
      /\ IF Registered(users, email)
         THEN /\ ~Falsy(r.ret)
              /\ \A i \in DOMAIN users :
                   IF users[i].email = email
                   THEN /\ r.db[i].session_id = r.ret
                        /\ Returns(get_user_from_session_id(r.db, r.ret, 0), i)
                   ELSE r.db[i] = users[i]
         ELSE r.ret = None /\ r.db = users

C7_Held ==
  \A i \in DOMAIN users :
    users[i].session_id # None
      => Returns(get_user_from_session_id(users, users[i].session_id, 0), i)

C7_Step ==
  users' # users => \A i \in DOMAIN users :
    users'[i].session_id # users[i].session_id
      => \/ last'.op = "create_session" /\ last'.arg = users[i].email
         \/ last'.op = "destroy_session" /\ last'.arg = i

C7_SessionResolvesToItsUser == [](C7_Calls /\ C7_Held) /\ [][C7_Step]_vars

C7_Witness ==
  /\ last.op = "create_session" /\ last.ret # None
  /\ \E i \in DOMAIN users :
       users[i].email = last.arg /\ users[i].session_id = last.ret

\* C8: a session id that destroy_session has cleared resolves to no user in
\* any later state, also after its user has been given a new session.
C8_DestroyedSessionNeverResolves ==
  \A t \in destroyed : \A fault \in 0..1 :
    Returns(get_user_from_session_id(users, t, fault), None)

C8_Witness ==
  /\ Len(users) = 1 /\ destroyed # {} /\ users[1].session_id # None
  /\ last.op = "get_user_from_session_id" /\ last.arg \in destroyed

\* C9: create_session for a user who holds session id t1 returns a
\* different id t2 that resolves to the user, and t1 resolves to no user
\* from then on.
C9_Calls ==
  \A i \in DOMAIN users :
    users[i].session_id # None
      => \A r \in create_session(users, users[i].email, issued, 0) :
           /\ r.ret # None /\ r.ret # users[i].session_id
           /\ Returns(get_user_from_session_id(r.db, r.ret, 0), i)
           /\ Returns(get_user_from_session_id(r.db, users[i].session_id, 0),
                      None)

C9_OneSessionPerUser ==
  /\ C9_Calls
  /\ \A t \in overwritten : \A fault \in 0..1 :
       Returns(get_user_from_session_id(users, t, fault), None)

C9_Witness ==
  /\ last.op = "get_user_from_session_id" /\ last.arg \in overwritten
  /\ \E i \in DOMAIN users : users[i].session_id # None

\* C10: get_user_from_session_id never raises and never changes the table;
\* a result other than None is a user whose session_id is the argument; on
\* None and on the empty string it returns None without a store call; on a
\* value that is no user's session_id and on a failing lookup it returns
\* None.
C10_GetUserOnlyWithSession ==
  \A session_id \in TokenArgs, fault \in 0..1 :
    \A r \in get_user_from_session_id(users, session_id, fault) :
      /\ r.exc = "none" /\ r.db = users
      /\ r.ret # None
           => /\ r.ret \in DOMAIN users
              /\ users[r.ret].session_id # None
              /\ users[r.ret].session_id = session_id
      /\ Falsy(session_id) => r.ret = None /\ r.calls = 0
      /\ (fault = 1 \/ Matches(users, "session_id", session_id) = {})
           => r.ret = None

C10_Witness ==
  /\ last.op = "get_user_from_session_id" /\ Falsy(last.arg)
  /\ last.ret = None
  /\ \E i \in DOMAIN users : users[i].session_id = None

\* C11: get_reset_password_token on an e-mail of no user raises ValueError
\* and changes no row; on the e-mail of a user it returns a non-null token
\* no earlier call returned and puts it on that user's row and on no other
\* field, so that find_user_by(reset_token = token) returns that user and
\* no other.
C11_ResetTokenIssued ==
  \A email \in EmailArgs :
    \A g \in get_reset_password_token(users, email, issued, 0) :
      IF Registered(users, email)
      THEN /\ g.exc = "none" /\ ~Falsy(g.ret) /\ g.ret \notin 1..issued
           /\ Len(g.db) = Len(users)
           /\ \A i \in DOMAIN users :
                IF users[i].email = email
                THEN /\ g.db[i] = [users[i] EXCEPT !.reset_token = g.ret]
                     /\ find_user_by(g.db, "reset_token", g.ret, FALSE)
                          = {[exc |-> "none", id |-> i]}
                ELSE g.db[i] = users[i]
      ELSE g.exc = "ValueError" /\ g.db = users

C11_Witness ==
  /\ last.op = "get_reset_password_token" /\ last.exc = "none"
  /\ \E i \in DOMAIN users :
       users[i].email = last.arg /\ users[i].reset_token = last.ret

\* C12: destroy_session with a falsy user_id makes no store call and changes
\* nothing; with the id of a user it sets that user's session_id to None
\* and changes no other field and no other row; on a user without a session
\* it leaves the table as it was, so a second call changes nothing.
C12_DestroySessionFrame ==
  \A user_id \in UserIdArgs :
    \A r \in destroy_session(users, user_id, 0) :
      /\ Falsy(user_id) => r.exc = "none" /\ r.calls = 0 /\ r.db = users
      /\ user_id \in DOMAIN users
           => /\ r.exc = "none" /\ Len(r.db) = Len(users)
              /\ r.db[user_id].session_id = None
              /\ r.db[user_id].email = users[user_id].email
              /\ r.db[user_id].hashed_password = users[user_id].hashed_password
              /\ r.db[user_id].reset_token = users[user_id].reset_token
              /\ \A j \in DOMAIN users \ {user_id} : r.db[j] = users[j]
              /\ users[user_id].session_id = None => r.db = users
              /\ \A r2 \in destroy_session(r.db, user_id, 0) : r2.db = r.db

C12_Witness ==
  /\ last.op = "destroy_session" /\ last.exc = "none"
  /\ last.arg \in DOMAIN users /\ destroyed # {}
  /\ users[last.arg].session_id = None /\ users[last.arg].reset_token # None

\* C15: any two distinct users with a session_id other than None have
\* different session ids, so a lookup by a session id other than None
\* matches at most one user.
C15_SessionIdsUnique ==
  /\ \A i, j \in DOMAIN users :
       (i # j /\ users[i].session_id # None)
         => users[i].session_id # users[j].session_id
  /\ \A t \in TokenArgs \ {None} :
       Cardinality(Matches(users, "session_id", t)) <= 1

C15_Witness ==
  /\ Len(users) = 2
  /\ users[1].session_id # None /\ users[2].session_id # None
  /\ last.op = "create_session" /\ last.ret # None

\* C16: reset tokens other than None are pairwise distinct across users; a
\* token is put on a row only when uuid4 has just produced it, and an
\* update_password call with a token pending on a user changes no row of
\* any other user.
C16_State ==
  /\ \A i, j \in DOMAIN users :
       (i # j /\ users[i].reset_token # None)
         => users[i].reset_token # users[j].reset_token
  /\ \A i \in DOMAIN users :
       users[i].reset_token # None
         => \A password \in PasswordArgs, salt \in Salts, fault \in 0..1 :
              \A r \in update_password(users, users[i].reset_token, password,
                                       salt, fault) :
                /\ Len(r.db) = Len(users)
                /\ \A j \in DOMAIN users \ {i} : r.db[j] = users[j]

C16_Step ==
  users' # users => \A i \in DOMAIN users :
    (users'[i].reset_token # users[i].reset_token
       /\ users'[i].reset_token # None)
      => /\ last'.op = "get_reset_password_token"
         /\ last'.arg = users[i].email
         /\ users'[i].reset_token = last'.ret
         /\ last'.ret \notin 1..issued

C16_ResetTokenBoundToItsUser == []C16_State /\ [][C16_Step]_vars

C16_Witness ==
  /\ Len(users) = 2 /\ last.op = "update_password" /\ last.exc = "none"
  /\ last.arg \in Uuids
  /\ \E j \in DOMAIN users : users[j].reset_token # None

\* C17: create_session and destroy_session change no hashed_password and no
\* reset_token; get_reset_password_token and update_password change no
\* session_id, so a stored session id resolves to the same user after
\* them.  (A user with a session and a pending reset, next to a user with
\* neither, is the witness.)
SameFields(db, fields) ==
  /\ Len(db) = Len(users)
  /\ \A i \in DOMAIN users : \A f \in fields : db[i][f] = users[i][f]

C18_Step ==
  last'.op \in {"valid_login", "create_session", "get_user_from_session_id",
                "get_reset_password_token", "update_password"}
    => /\ last'.exc # "StoreError"
       /\ last'.exc # "none" => users' = users

C18_StoreFailureLooksLikeNotFound == [][C18_Step]_vars

\* C19: get_reset_password_token on a user whose reset token t1 is pending
\* returns another token t2 and replaces t1 by it: update_password(t1, pw)
\* then raises ValueError and changes nothing, at once and in every later
\* state, and update_password(t2, pw) succeeds on that user.
C19_Calls ==
  \A i \in DOMAIN users :
    users[i].reset_token # None
      => \A g \in get_reset_password_token(users, users[i].email, issued, 0) :
           /\ g.exc = "none" /\ g.ret # users[i].reset_token
           /\ \A password \in Passwords, salt \in Salts :
                /\ \A r \in update_password(g.db, users[i].reset_token,
                                            password, salt, 0) :
                     r.exc = "ValueError" /\ r.db = g.db
                /\ \A r \in update_password(g.db, g.ret, password, salt, 0) :
                     r.exc = "none" /\ r.user = i

C19_OnePendingResetToken ==
  /\ C19_Calls
  /\ \A t \in superseded : \A password \in PasswordArgs, salt \in Salts :
       \A r \in update_password(users, t, password, salt, 0) :
         r.exc = "ValueError" /\ r.db = users

C19_Witness ==
  /\ last.op = "update_password" /\ last.arg \in superseded
  /\ last.exc = "ValueError"
  /\ \E i \in DOMAIN users : users[i].reset_token # None

\* C13: with calls interleaved between their store calls, the
\* destroy_session of a logout clears whatever session id the user it
\* resolved holds by then, not the one it resolved the user from: a logout
\* sent with session id A can clear the id B that a create_session stored
\* in between, and B, returned to its caller, then resolves to no user.
C13_Cleared ==
  \A q \in Slots :
    (reqs[q].op = "logout" /\ reqs[q].cleared # None)
      => Returns(get_user_from_session_id(users, reqs[q].cleared, 0), None)

C13_Step ==
  \A q \in Slots :
    (reqs[q].op = "logout" /\ reqs[q].pc = "destroy" /\ reqs'[q].pc = "done")
      => /\ reqs'[q].exc = "none"
         /\ reqs'[q].cleared = users[reqs[q].user].session_id
         /\ users' = [users EXCEPT ![reqs[q].user].session_id = None]

C13_LogoutClearsCurrentSession == []C13_Cleared /\ [][C13_Step]_vars

C13_Witness ==
  \E q1, q2 \in Slots :
    /\ reqs[q1].op = "logout" /\ reqs[q1].pc = "done"
    /\ reqs[q1].cleared # None /\ reqs[q1].cleared # reqs[q1].arg
    /\ reqs[q2].op = "create_session" /\ reqs[q2].pc = "done"
    /\ reqs[q2].ret = reqs[q1].cleared
    /\ Returns(get_user_from_session_id(users, reqs[q2].ret, 0), None)

====
